---- MODULE Spec2Model ----
(***************************************************************************)
(* Repository tree crawler and analysis session registry of                *)
(* server/routes/github.js: POST /analyze, POST /analyze/cancel and        *)
(* GET /analyze/progress over the process-wide Map activeAnalyses.         *)
(*                                                                         *)
(* JavaScript strings that the code inspects character by character (the   *)
(* repository URL, entry names, session ids) are sequences of one-letter   *)
(* strings.  A repository path "a/b" is the sequence of its entry names.   *)
(* Node.js runs every handler to its next await on a real I/O operation    *)
(* without interleaving, so one action is one such run.                    *)
(***************************************************************************)
EXTENDS Integers, Sequences, FiniteSets, TLC

(***************************************************************************)
(* Bounds of the model.                                                    *)
(***************************************************************************)
\* number of POST /analyze requests a behaviour may hold
MaxReq == 2
\* largest value Date.now() takes
MaxNow == 1

Requests == 1..MaxReq

(***************************************************************************)
(* Strings.                                                                *)
(***************************************************************************)
Digits == <<"0", "1", "2", "3", "4", "5", "6", "7", "8", "9">>

\* String(n) of a non-negative integer, as in a template literal
RECURSIVE ToStr(_)
ToStr(n) ==
    IF n < 10 THEN <<Digits[n + 1]>>
    ELSE ToStr(n \div 10) \o <<Digits[(n % 10) + 1]>>

\* String.prototype.startsWith
StartsWith(s, p) ==
    /\ Len(p) <= Len(s)
    /\ SubSeq(s, 1, Len(p)) = p

\* the rest of s from position i on
From(s, i) == SubSeq(s, i, Len(s))

\* first position of character c in s, 0 when absent
RECURSIVE IndexOf(_, _, _)
IndexOf(s, c, i) ==
    IF i > Len(s) THEN 0
    ELSE IF s[i] = c THEN i
    ELSE IndexOf(s, c, i + 1)

(***************************************************************************)
(* parseGitHubUrl: /github\.com\/([^\/]+)\/([^\/]+)/                       *)
(***************************************************************************)
HostMarker == <<"g", "i", "t", "h", "u", "b", ".", "c", "o", "m", "/">>

\* the longest run of non-slash characters of s starting at position i
RECURSIVE Segment(_, _)
Segment(s, i) ==
    IF i > Len(s) \/ s[i] = "/" THEN <<>>
    ELSE <<s[i]>> \o Segment(s, i + 1)

\* the match of the regular expression anchored at position i, or the
\* empty record when it does not match there
MatchAt(url, i) ==
    IF ~StartsWith(From(url, i), HostMarker) THEN [found |-> FALSE]
    ELSE LET o  == i + Len(HostMarker)
             ow == Segment(url, o)
             r  == o + Len(ow) + 1
             rp == Segment(url, r)
         IN  IF /\ Len(ow) > 0
                /\ o + Len(ow) <= Len(url)
                /\ url[o + Len(ow)] = "/"
                /\ Len(rp) > 0
             THEN [found |-> TRUE, owner |-> ow, repo |-> rp]
             ELSE [found |-> FALSE]

RECURSIVE FirstMatch(_, _)
FirstMatch(url, i) ==
    IF i > Len(url) THEN [found |-> FALSE]
    ELSE IF MatchAt(url, i).found THEN MatchAt(url, i)
    ELSE FirstMatch(url, i + 1)

\* a resolver that is content with the owner segment
parseGitHubUrlOwnerOnly(url) ==
    IF \E i \in 1..Len(url) :
           /\ StartsWith(From(url, i), HostMarker)
           /\ Len(Segment(url, i + Len(HostMarker))) > 0
    THEN [found |-> TRUE, owner |-> <<>>, repo |-> <<>>]
    ELSE [found |-> FALSE]

parseGitHubUrl(url) == FirstMatch(url, 1)

(***************************************************************************)
(* The skip patterns and their test.                                       *)
(***************************************************************************)
skipPatterns == <<
    <<"n", "o", "d", "e", "_", "m", "o", "d", "u", "l", "e", "s">>,
    <<".", "g", "i", "t">>,
    <<"d", "i", "s", "t">>,
    <<"b", "u", "i", "l", "d">>,
    <<".", "n", "e", "x", "t">>,
    <<".", "n", "u", "x", "t">>,
    <<"c", "o", "v", "e", "r", "a", "g", "e">>,
    <<".", "n", "y", "c", "_", "o", "u", "t", "p", "u", "t">>,
    <<".", "c", "a", "c", "h", "e">>,
    <<".", "p", "a", "r", "c", "e", "l", "-", "c", "a", "c", "h", "e">>,
    <<"*", ".", "l", "o", "g">>,
    <<"*", ".", "l", "o", "c", "k">>,
    <<"*", ".", "m", "i", "n", ".", "j", "s">>,
    <<"*", ".", "m", "i", "n", ".", "c", "s", "s">>,
    <<"*", ".", "m", "a", "p">> >>

\* pattern.replace('*', '.*'): the first "*" only
ReplaceStar(pattern) ==
    LET k == IndexOf(pattern, "*", 1)
    IN  IF k = 0 THEN pattern
        ELSE SubSeq(pattern, 1, k - 1) \o <<".", "*">> \o From(pattern, k + 1)

\* one regular-expression atom against one character: "." is any character
AtomMatches(a, c) == a = "." \/ a = c

\* the regular expression re (atoms, "." and postfix "*") matches a prefix
\* of text
RECURSIVE MatchHere(_, _)
MatchHere(re, text) ==
    IF Len(re) = 0 THEN TRUE
    ELSE IF Len(re) >= 2 /\ re[2] = "*"
    THEN \E k \in 0..Len(text) :
            /\ \A j \in 1..k : AtomMatches(re[1], text[j])
            /\ MatchHere(From(re, 3), From(text, k + 1))
    ELSE /\ Len(text) > 0
         /\ AtomMatches(re[1], text[1])
         /\ MatchHere(Tail(re), Tail(text))

\* new RegExp(re).test(text): unanchored
RegexTest(re, text) ==
    \E start \in 1..(Len(text) + 1) : MatchHere(re, From(text, start))

PatternMatches(pattern, name) ==
    IF IndexOf(pattern, "*", 1) # 0
    THEN RegexTest(ReplaceStar(pattern), name)
    ELSE name = pattern

shouldSkip(name) ==
    \E i \in 1..Len(skipPatterns) : PatternMatches(skipPatterns[i], name)

(***************************************************************************)
(* JavaScript objects are records; a property that was never set is not in *)
(* the record's domain.                                                    *)
(***************************************************************************)
Undefined == <<>>

\* obj?.key read for its truth value
Truthy(obj, key) == key \in DOMAIN obj /\ obj[key]

\* obj.key || dflt
OrElse(obj, key, falsy, dflt) ==
    IF key \in DOMAIN obj /\ obj[key] # falsy THEN obj[key] ELSE dflt

\* { ...a, ...b }
Spread(a, b) ==
    [k \in DOMAIN a \cup DOMAIN b |-> IF k \in DOMAIN b THEN b[k] ELSE a[k]]

(***************************************************************************)
(* Map: a sequence of [id, val] in insertion order.                        *)
(***************************************************************************)
MapIndex(m, id) ==
    IF \E i \in 1..Len(m) : m[i].id = id
    THEN CHOOSE i \in 1..Len(m) : m[i].id = id
    ELSE 0

MapHas(m, id) == MapIndex(m, id) # 0

MapGet(m, id) == IF MapHas(m, id) THEN m[MapIndex(m, id)].val ELSE Undefined

\* Map.prototype.set: an existing key keeps its place
MapSet(m, id, val) ==
    IF MapHas(m, id)
    THEN [m EXCEPT ![MapIndex(m, id)] = [id |-> id, val |-> val]]
    ELSE Append(m, [id |-> id, val |-> val])

MapDelete(m, id) ==
    IF MapHas(m, id)
    THEN SubSeq(m, 1, MapIndex(m, id) - 1) \o From(m, MapIndex(m, id) + 1)
    ELSE m

(***************************************************************************)
(* The upstream source: what GET /repos/:owner/:repo/contents/:path lists. *)
(***************************************************************************)
File(name, size) == [name |-> name, type |-> "file", size |-> size]
Dir(name, entries) == [name |-> name, type |-> "dir", size |-> 0, entries |-> entries]

N_src          == <<"s", "r", "c">>
N_lib          == <<"l", "i", "b">>
N_docs         == <<"d", "o", "c", "s">>
N_readme       == <<"r", "e", "a", "d", "m", "e", ".", "t", "x", "t">>
N_main         == <<"m", "a", "i", "n", ".", "j", "s">>
N_node_modules == <<"n", "o", "d", "e", "_", "m", "o", "d", "u", "l", "e", "s">>
N_git          == <<".", "g", "i", "t">>
N_log          == <<"a", ".", "l", "o", "g">>
N_big          == <<"b", "i", "g", ".", "b", "i", "n">>
N_edge         == <<"e", "d", "g", "e">>
N_empty        == <<"e", "m", "p", "t", "y">>
N_catalog      == <<"c", "a", "t", "a", "l", "o", "g">>

\* the size ceiling of line 151
SizeCeiling == 1024 * 1024

RepoEmpty == <<>>

RepoScenario == <<
    File(N_readme, 10),
    Dir(N_src, << File(N_main, 5), Dir(N_lib, << File(N_readme, 7) >>) >>) >>

RepoDeepThenShallow == <<
    Dir(N_src, << Dir(N_lib, <<>>) >>),
    Dir(N_docs, <<>>) >>

RepoFiltered == <<
    Dir(N_node_modules, << File(N_main, 3) >>),
    File(N_big, SizeCeiling),
    File(N_edge, SizeCeiling - 1),
    File(N_empty, 0),
    File(N_log, 4),
    File(N_catalog, 6),
    Dir(N_src, << Dir(N_git, << File(N_main, 1) >>),
                  File(N_big, SizeCeiling + 1),
                  File(N_main, 9) >>) >>

RepoNested == << Dir(N_src, <<>>) >>

Repos == << RepoEmpty, RepoScenario, RepoDeepThenShallow, RepoFiltered, RepoNested >>

\* an entry of a listing as the API reports it
Item(e, dir) ==
    [name |-> e.name, type |-> e.type, path |-> Append(dir, e.name),
     size |-> e.size,
     download_url |-> IF e.type = "file" THEN Append(dir, e.name) ELSE <<>>]

RECURSIVE Entries(_, _)
Entries(entries, path) ==
    IF path = <<>> THEN entries
    ELSE LET e == CHOOSE x \in { entries[i] : i \in 1..Len(entries) } :
                     x.name = Head(path) /\ x.type = "dir"
         IN  Entries(e.entries, Tail(path))

\* response.data of the axios.get of lines 90-93
ListDirectory(repo, path) ==
    LET es == Entries(Repos[repo], path)
    IN  [i \in 1..Len(es) |-> Item(es[i], path)]

(***************************************************************************)
(* State.                                                                  *)
(***************************************************************************)
VARIABLES
    activeAnalyses,  \* the Map of line 171
    now,             \* the clock Date.now() reads
    req,             \* per POST /analyze request: the handler's locals,
                     \* the crawl's call stack, the fetches it issued,
                     \* its Repository.create calls and its response
    polled           \* the last response of the cancel and progress endpoints

vars == <<activeAnalyses, now, req, polled>>

\* req.user.id values; String(1) is a prefix of String(12)
Users == {1, 12}

U_valid   == <<"g", "i", "t", "h", "u", "b", ".", "c", "o", "m", "/", "a", "/", "b">>
U_noRepo  == <<"g", "i", "t", "h", "u", "b", ".", "c", "o", "m", "/", "a">>
U_noHost  == <<"x", ".", "i", "o", "/", "a", "/", "b">>
U_empty   == <<>>

\* req.body of POST /analyze: with and without an address the resolver
\* accepts, with and without maxDepth
Bodies ==
    {[repoUrl |-> U_valid, maxDepth |-> 1], [repoUrl |-> U_valid, maxDepth |-> 2],
     [repoUrl |-> U_valid],
     [repoUrl |-> U_valid, maxDepth |-> 0], [repoUrl |-> U_valid, maxDepth |-> 25],
     [repoUrl |-> U_valid, maxDepth |-> -1],
     [repoUrl |-> U_noRepo], [repoUrl |-> U_noHost, maxDepth |-> 1],
     [repoUrl |-> U_empty], [maxDepth |-> 2]}

\* the bodies sent while several requests are in flight
SessionBodies ==
    {[repoUrl |-> U_valid, maxDepth |-> 2], [repoUrl |-> U_noRepo], [maxDepth |-> 2]}

\* error.message: the catch of lines 165-167 prefixes it once per call
Wrap(message, times) ==
    [i \in 1..times |-> "GitHub API error: "] \o message

CancelledMessage == <<"Analysis cancelled by user">>
UpstreamMessage  == <<"Request failed">>

IsCancelled(reg, id) == Truthy(MapGet(reg, id), "cancelled")

\* a percentage cut off instead of rounded
ProgressFloor(depth, maxDepth) ==
    IF depth >= maxDepth THEN 100 ELSE (100 * depth) \div maxDepth

\* Math.round(Math.min((depth / maxDepth) * 100, 100))
Progress(depth, maxDepth) ==
    IF depth >= maxDepth THEN 100
    ELSE (200 * depth + maxDepth) \div (2 * maxDepth)

\* an update that writes a fresh entry instead of spreading the old one
UpdateProgressOverwrite(reg, id, path, depth, maxDepth) ==
    IF depth > 0
    THEN MapSet(reg, id,
                [progress |-> Progress(depth, maxDepth),
                 currentDepth |-> depth, currentPath |-> path])
    ELSE reg

\* lines 67-76
UpdateProgress(reg, id, path, depth, maxDepth) ==
    IF depth > 0
    THEN MapSet(reg, id,
                Spread(MapGet(reg, id),
                       [progress |-> Progress(depth, maxDepth),
                        currentDepth |-> depth, currentPath |-> path]))
    ELSE reg

\* lines 80-86
TruncatedTree(path, maxDepth) ==
    [name |-> path, type |-> "folder", children |-> <<>>, truncated |-> TRUE,
     message |-> <<"Maximum depth reached", maxDepth>>]

\* a folder node that does not copy truncated and message from the subtree
FolderNodeNoFlag(item, subTree, depth) ==
    [name |-> item.name, type |-> "folder", path |-> item.path,
     children |-> subTree.children, depth |-> depth + 1]

\* lines 140-148; truncated and message are undefined, so absent from the
\* serialised node, when the subtree has none
FolderNode(item, subTree, depth) ==
    Spread([name |-> item.name, type |-> "folder", path |-> item.path,
            children |-> subTree.children, depth |-> depth + 1],
           IF "truncated" \in DOMAIN subTree
           THEN [truncated |-> subTree.truncated, message |-> subTree.message]
           ELSE Undefined)

\* lines 152-159
FileNode(item, depth) ==
    [name |-> item.name, type |-> "file", path |-> item.path,
     download_url |-> item.download_url, size |-> item.size, depth |-> depth]

\* a filter that passes over files only
SkipItemFilesOnly(item) == item.type = "file" /\ shouldSkip(item.name)

\* lines 117-127: the entry is passed over
SkipItem(item) == shouldSkip(item.name)

\* a size test that lets a file of exactly the ceiling through
IncludeFileAtCeiling(item) == item.size # 0 /\ item.size <= SizeCeiling

\* line 151
IncludeFile(item) == item.size # 0 /\ item.size < SizeCeiling

\* a call of buildFileTreeWithCancellation waiting for its listing or for
\* the call it made for Head(items)
Frame(path, depth) ==
    [path |-> path, depth |-> depth, items |-> <<>>, children |-> <<>>]

\* the caller's frame after the call for Head(items) returned subTree
Attach(frame, subTree) ==
    [frame EXCEPT !.children = Append(@, FolderNode(Head(frame.items), subTree, frame.depth)),
                  !.items = Tail(@)]

(***************************************************************************)
(* A call of buildFileTreeWithCancellation from its entry to its first     *)
(* await (lines 62-93): it throws, returns the truncated node or issues    *)
(* the fetch of its listing.                                               *)
(***************************************************************************)
\* a call that never stops at the depth ceiling
EnterNoCeiling(reg, id, path, depth, maxDepth) ==
    IF IsCancelled(reg, id)
    THEN [kind |-> "throw", reg |-> reg]
    ELSE [kind |-> "await", reg |-> UpdateProgress(reg, id, path, depth, maxDepth)]

Enter(reg, id, path, depth, maxDepth) ==
    IF IsCancelled(reg, id)
    THEN [kind |-> "throw", reg |-> reg]
    ELSE IF depth > maxDepth
    THEN [kind |-> "truncated", reg |-> UpdateProgress(reg, id, path, depth, maxDepth)]
    ELSE [kind |-> "await", reg |-> UpdateProgress(reg, id, path, depth, maxDepth)]

(***************************************************************************)
(* The crawl from the moment the listing of the top call is in items, run  *)
(* to the next fetch (kind "await"), to the return of the root call (kind  *)
(* "return") or to a throw (kind "throw").                                 *)
(***************************************************************************)
RECURSIVE Run(_, _, _, _, _, _)
Run(stack, reg, fetched, id, maxDepth, repoName) ==
    LET n   == Len(stack)
        top == stack[n]
    IN
    IF top.items = <<>>
    THEN \* line 164
         LET tree == [name |-> IF top.path = <<>> THEN <<repoName>> ELSE top.path,
                      type |-> "folder", children |-> top.children,
                      depth |-> top.depth]
         IN  IF n = 1
             THEN [kind |-> "return", tree |-> tree, reg |-> reg,
                   fetched |-> fetched, stack |-> <<>>]
             ELSE Run(Append(SubSeq(stack, 1, n - 2), Attach(stack[n - 1], tree)),
                      reg, fetched, id, maxDepth, repoName)
    ELSE
    LET item == Head(top.items)
        next == [stack EXCEPT ![n].items = Tail(@)]
    IN
    IF IsCancelled(reg, id)
    THEN \* lines 112-114
         [kind |-> "throw", message |-> Wrap(CancelledMessage, n), reg |-> reg,
          fetched |-> fetched, stack |-> <<>>]
    ELSE IF SkipItem(item)
    THEN \* lines 125-127
         Run(next, reg, fetched, id, maxDepth, repoName)
    ELSE IF item.type = "dir"
    THEN \* lines 131-148
         LET call == Enter(reg, id, item.path, top.depth + 1, maxDepth)
         IN  CASE call.kind = "throw" ->
                    [kind |-> "throw", message |-> Wrap(CancelledMessage, n + 1),
                     reg |-> call.reg, fetched |-> fetched, stack |-> <<>>]
               [] call.kind = "truncated" ->
                    Run([stack EXCEPT ![n] = Attach(top, TruncatedTree(item.path, maxDepth))],
                        call.reg, fetched, id, maxDepth, repoName)
               [] call.kind = "await" ->
                    [kind |-> "await", reg |-> call.reg,
                     fetched |-> Append(fetched, item.path),
                     stack |-> Append(stack, Frame(item.path, top.depth + 1))]
    ELSE IF IncludeFile(item)
    THEN Run([next EXCEPT ![n].children = Append(@, FileNode(item, top.depth))],
             reg, fetched, id, maxDepth, repoName)
    ELSE Run(next, reg, fetched, id, maxDepth, repoName)

(***************************************************************************)
(* POST /analyze.                                                          *)
(***************************************************************************)
Min(a, b) == IF a < b THEN a ELSE b
Max(a, b) == IF a > b THEN a ELSE b

\* line 183 with the default of line 176; maxDepth is an integer when given
EffectiveDepth(body) ==
    LET given == IF "maxDepth" \in DOMAIN body THEN body.maxDepth ELSE 15
        orElse == IF given # 0 THEN given ELSE 15
    IN  Min(Max(orElse, 1), 20)

NoResponse == [status |-> 0]

IdleRequest ==
    [pc |-> "idle", userId |-> 0, body |-> Undefined, depth |-> 0,
     analysisId |-> <<>>, repo |-> 0, repoName |-> <<>>, stack |-> <<>>,
     fetched |-> <<>>, created |-> <<>>, response |-> NoResponse,
     cancelHit |-> FALSE, failedAt |-> 0]

\* res.status(code).json(payload)
Respond(r, code, payload) ==
    [req[r] EXCEPT !.pc = "done", !.stack = <<>>,
                   !.response = Spread([status |-> code], payload)]

\* a catch that ends the request without sending anything
FailedSilently(r, message) ==
    [req[r] EXCEPT !.pc = "done", !.stack = <<>>]

\* the catch of lines 218-224
Failed(r, message) ==
    Respond(r, 500, [message |-> "Failed to analyze repository", error |-> message])

\* a handler that saves without unregistering first
AfterCrawlKeepsSession(r, reg, fetched, tree) ==
    [reg |-> reg,
     req |-> [req[r] EXCEPT !.pc = "saving", !.stack = <<>>,
                            !.fetched = fetched,
                            !.created = Append(@, [userId |-> req[r].userId,
                                                   repoUrl |-> req[r].body.repoUrl,
                                                   repoData |-> tree])]]

\* lines 201-210, once the root call has returned tree
AfterCrawl(r, reg, fetched, tree) ==
    LET reg2 == MapDelete(reg, req[r].analysisId)
    IN  IF IsCancelled(reg2, req[r].analysisId)
        THEN [reg |-> reg2,
              req |-> [Respond(r, 499, [message |-> "Analysis cancelled by user"])
                           EXCEPT !.fetched = fetched]]
        ELSE [reg |-> reg2,
              req |-> [req[r] EXCEPT !.pc = "saving", !.stack = <<>>,
                                     !.fetched = fetched,
                                     !.created = Append(@, [userId |-> req[r].userId,
                                                            repoUrl |-> req[r].body.repoUrl,
                                                            repoData |-> tree])]]

\* a crawl whose throw is swallowed: the handler goes on with an empty tree
ContinueAfterThrow(r, res) ==
    CASE res.kind = "await" ->
            [reg |-> res.reg,
             req |-> [req[r] EXCEPT !.stack = res.stack, !.fetched = res.fetched]]
      [] res.kind = "throw" ->
            AfterCrawl(r, res.reg, res.fetched,
                       [name |-> <<req[r].repoName>>, type |-> "folder",
                        children |-> <<>>, depth |-> 0])
      [] res.kind = "return" ->
            AfterCrawl(r, res.reg, res.fetched, res.tree)

\* the handler's continuation after the crawl suspended, threw or returned:
\* the registry and the request's record it leaves
Continue(r, res) ==
    CASE res.kind = "await" ->
            [reg |-> res.reg,
             req |-> [req[r] EXCEPT !.stack = res.stack, !.fetched = res.fetched]]
      [] res.kind = "throw" ->
            [reg |-> res.reg,
             req |-> [Failed(r, res.message) EXCEPT !.fetched = res.fetched]]
      [] res.kind = "return" ->
            AfterCrawl(r, res.reg, res.fetched, res.tree)

\* lines 174-199: the request arrives and runs to the fetch of the root
\* listing; repo is the upstream repository the address names
StartAnalysis(r, u, body, repo) ==
    /\ req[r].pc = "idle"
    /\ IF r = 1 THEN TRUE ELSE req[r - 1].pc # "idle"
    /\ UNCHANGED <<now, polled>>
    /\ IF "repoUrl" \notin DOMAIN body \/ body.repoUrl = <<>>
       THEN /\ req' = [req EXCEPT ![r] =
                           [Respond(r, 400, [message |-> "Repository URL is required"])
                                EXCEPT !.userId = u, !.body = body]]
            /\ UNCHANGED activeAnalyses
       ELSE IF ~parseGitHubUrl(body.repoUrl).found
       THEN /\ req' = [req EXCEPT ![r] =
                           [Respond(r, 400, [message |-> "Invalid GitHub URL"])
                                EXCEPT !.userId = u, !.body = body,
                                       !.depth = EffectiveDepth(body)]]
            /\ UNCHANGED activeAnalyses
       ELSE LET id   == ToStr(u) \o <<"-">> \o ToStr(now)
                reg1 == MapSet(activeAnalyses, id, [cancelled |-> FALSE, progress |-> 0])
                call == Enter(reg1, id, <<>>, 0, EffectiveDepth(body))
                mine == [req[r] EXCEPT !.userId = u, !.body = body,
                                       !.depth = EffectiveDepth(body),
                                       !.analysisId = id, !.repo = repo,
                                       !.repoName = parseGitHubUrl(body.repoUrl).repo]
            IN  /\ activeAnalyses' = call.reg
                /\ req' = [req EXCEPT ![r] =
                       IF call.kind = "throw"
                       THEN [mine EXCEPT !.pc = "done",
                                  !.response =
                                      [status |-> 500,
                                       message |-> "Failed to analyze repository",
                                       error |-> Wrap(CancelledMessage, 1)]]
                       ELSE [mine EXCEPT !.pc = "fetching",
                                         !.stack = <<Frame(<<>>, 0)>>,
                                         !.fetched = << <<>> >>]]

\* a listing handed to the outermost call instead of the call that asked
FetchReturnsToFirstCall(r) ==
    /\ req[r].pc = "fetching"
    /\ UNCHANGED <<now, polled>>
    /\ LET n     == Len(req[r].stack)
           stack == [req[r].stack EXCEPT
                        ![1].items = ListDirectory(req[r].repo, req[r].stack[n].path)]
           after == Continue(r, Run(stack, activeAnalyses, req[r].fetched,
                                    req[r].analysisId, req[r].depth, req[r].repoName))
       IN  /\ activeAnalyses' = after.reg
           /\ req' = [req EXCEPT ![r] = after.req]

\* the pending axios.get of lines 90-93 resolves
FetchReturns(r) ==
    /\ req[r].pc = "fetching"
    /\ UNCHANGED <<now, polled>>
    /\ LET n     == Len(req[r].stack)
           stack == [req[r].stack EXCEPT
                        ![n].items = ListDirectory(req[r].repo, req[r].stack[n].path)]
           after == Continue(r, Run(stack, activeAnalyses, req[r].fetched,
                                    req[r].analysisId, req[r].depth, req[r].repoName))
       IN  /\ activeAnalyses' = after.reg
           /\ req' = [req EXCEPT ![r] = after.req]

\* a rejected fetch taken for an empty listing
FetchFailsAsEmpty(r) ==
    /\ req[r].pc = "fetching"
    /\ UNCHANGED <<now, polled>>
    /\ LET after == Continue(r, Run(req[r].stack, activeAnalyses, req[r].fetched,
                                    req[r].analysisId, req[r].depth, req[r].repoName))
       IN  /\ activeAnalyses' = after.reg
           /\ req' = [req EXCEPT ![r] =
                          [after.req EXCEPT !.failedAt = Len(req[r].fetched)]]

\* the pending axios.get rejects: every call on the stack rethrows;
\* failedAt is history: the number of the fetch that failed
FetchFails(r) ==
    /\ req[r].pc = "fetching"
    /\ UNCHANGED <<now, polled>>
    /\ LET after == Continue(r, [kind |-> "throw", reg |-> activeAnalyses,
                                 fetched |-> req[r].fetched,
                                 message |-> Wrap(UpstreamMessage, Len(req[r].stack))])
       IN  /\ activeAnalyses' = after.reg
           /\ req' = [req EXCEPT ![r] =
                          [after.req EXCEPT !.failedAt = Len(req[r].fetched)]]

\* lines 210-217: Repository.create resolves
SaveReturns(r) ==
    /\ req[r].pc = "saving"
    /\ UNCHANGED <<activeAnalyses, now, polled>>
    /\ req' = [req EXCEPT ![r] =
           Respond(r, 200, [message |-> "Repository analyzed successfully",
                            fileTree |-> req[r].created[Len(req[r].created)].repoData,
                            analysisConfig |-> [maxDepth |-> req[r].depth]])]

\* Repository.create rejects
SaveFails(r) ==
    /\ req[r].pc = "saving"
    /\ UNCHANGED <<activeAnalyses, now, polled>>
    /\ req' = [req EXCEPT ![r] = Failed(r, <<"insert failed">>)]

(***************************************************************************)
(* POST /analyze/cancel and GET /analyze/progress.                         *)
(***************************************************************************)
\* the ids the loops of lines 233 and 250 select for user u
Matches(reg, u) == { i \in 1..Len(reg) : StartsWith(reg[i].id, ToStr(u)) }

\* a loop that flips the flag of every matching session
MarkCancelledToggle(reg, u) ==
    [i \in 1..Len(reg) |->
        IF i \in Matches(reg, u)
        THEN [reg[i] EXCEPT !.val = Spread(@, [cancelled |-> ~Truthy(@, "cancelled")])]
        ELSE reg[i]]

\* a loop that stops at the first matching session
MarkCancelledFirst(reg, u) ==
    [i \in 1..Len(reg) |->
        IF i \in Matches(reg, u) /\ \A j \in Matches(reg, u) : i <= j
        THEN [reg[i] EXCEPT !.val = Spread(@, [cancelled |-> TRUE])]
        ELSE reg[i]]

\* lines 233-237
MarkCancelled(reg, u) ==
    [i \in 1..Len(reg) |->
        IF i \in Matches(reg, u)
        THEN [reg[i] EXCEPT !.val = Spread(@, [cancelled |-> TRUE])]
        ELSE reg[i]]

\* line 239
CancelResponse == [message |-> <<"Analysis cancellation requested">>]

\* cancelHit is history: a cancel of the request's own user, matching one
\* session only, marked the session while its crawl had not returned
RequestCancel(u) ==
    /\ activeAnalyses' = MarkCancelled(activeAnalyses, u)
    /\ req' = [r \in Requests |->
                 IF /\ req[r].pc = "fetching"
                    /\ req[r].userId = u
                    /\ Cardinality(Matches(activeAnalyses, u)) = 1
                    /\ MapHas(activeAnalyses, req[r].analysisId)
                 THEN [req[r] EXCEPT !.cancelHit = TRUE]
                 ELSE req[r]]
    /\ polled' = [userId |-> u, response |-> CancelResponse, source |-> <<>>]
    /\ UNCHANGED now

\* the entry the loop of line 250 stops at: the first match in insertion
\* order, 0 when there is none
ProgressEntry(reg, u) ==
    IF Matches(reg, u) = {} THEN 0
    ELSE CHOOSE k \in Matches(reg, u) : \A j \in Matches(reg, u) : k <= j

\* lines 250-262
ProgressResponse(reg, u) ==
    IF ProgressEntry(reg, u) = 0
    THEN [active |-> FALSE]
    ELSE LET a == reg[ProgressEntry(reg, u)].val
         IN  [active |-> TRUE,
              progress |-> OrElse(a, "progress", 0, 0),
              currentDepth |-> OrElse(a, "currentDepth", 0, 0),
              currentPath |-> OrElse(a, "currentPath", <<>>, <<>>),
              cancelled |-> OrElse(a, "cancelled", FALSE, FALSE)]

\* source is history: the id of the session the response was read from
QueryProgress(u) ==
    /\ polled' = [userId |-> u, response |-> ProgressResponse(activeAnalyses, u),
                  source |-> IF ProgressEntry(activeAnalyses, u) = 0 THEN <<>>
                             ELSE activeAnalyses[ProgressEntry(activeAnalyses, u)].id]
    /\ UNCHANGED <<activeAnalyses, now, req>>

\* time passes
Tick ==
    /\ now < MaxNow
    /\ now' = now + 1
    /\ UNCHANGED <<activeAnalyses, req, polled>>

Init ==
    /\ activeAnalyses = <<>>
    /\ now = 0
    /\ req = [r \in Requests |-> IdleRequest]
    /\ polled = [userId |-> 0, response |-> [active |-> FALSE], source |-> <<>>]

\* the upstream repositories crawled while several requests are in flight
SessionRepos == {5}

\* several requests in flight, each on a small upstream repository
Next ==
    \/ \E r \in Requests, u \in Users, body \in SessionBodies, repo \in SessionRepos :
           StartAnalysis(r, u, body, repo)
    \/ \E r \in Requests : FetchReturns(r)
    \/ \E r \in Requests : FetchFails(r)
    \/ \E r \in Requests : SaveReturns(r)
    \/ \E r \in Requests : SaveFails(r)
    \/ \E u \in Users : RequestCancel(u)
    \/ \E u \in Users : QueryProgress(u)
    \/ Tick

Spec == Init /\ [][Next]_vars

\* one request at a time on every body and every upstream repository,
\* with the cancel and progress requests of both users
NextCrawl ==
    \/ \E u \in Users, body \in Bodies, repo \in 1..Len(Repos) :
           StartAnalysis(1, u, body, repo)
    \/ FetchReturns(1)
    \/ FetchFails(1)
    \/ SaveReturns(1)
    \/ SaveFails(1)
    \/ \E u \in Users : RequestCancel(u)
    \/ \E u \in Users : QueryProgress(u)
    \/ Tick

SpecCrawl == Init /\ [][NextCrawl]_vars

\* the same, with every pending axios.get and every pending
\* Repository.create settling in the end: the promise resolves or rejects
\* and the event loop then runs the handler's continuation
SpecCrawlFair ==
    /\ SpecCrawl
    /\ WF_vars(FetchFails(1) \/ FetchReturns(1))
    /\ WF_vars(SaveFails(1) \/ SaveReturns(1))

(***************************************************************************)
(* Vocabulary of the properties.                                           *)
(***************************************************************************)
IsFolder(node) == node.type = "folder"
IsFile(node) == node.type = "file"
IsTruncated(node) == Truthy(node, "truncated")

\* the nodes below node, in document order
RECURSIVE Below(_)
Below(node) ==
    IF ~IsFolder(node) THEN <<>>
    ELSE LET RECURSIVE Walk(_)
             Walk(i) ==
                 IF i > Len(node.children) THEN <<>>
                 ELSE <<node.children[i]>> \o Below(node.children[i]) \o Walk(i + 1)
         IN  Walk(1)

\* every node of a tree, the root first
NodesOf(tree) == <<tree>> \o Below(tree)

\* the requests whose crawl returned a tree to the handler, and the tree
Returned == { r \in Requests : req[r].created # <<>> }
TreeOf(r) == req[r].created[1].repoData

\* the entry of the upstream repository at a path
RECURSIVE UpstreamEntry(_, _)
UpstreamEntry(entries, path) ==
    LET e == CHOOSE x \in { entries[i] : i \in 1..Len(entries) } : x.name = Head(path)
    IN  IF Len(path) = 1 THEN e ELSE UpstreamEntry(e.entries, Tail(path))

Registered(r) == req[r].analysisId # <<>>

\* the error detail of a response names the cancellation
CancelObserved(r) ==
    /\ "error" \in DOMAIN req[r].response
    /\ req[r].response.error[Len(req[r].response.error)] = CancelledMessage[1]

(***************************************************************************)
(* C1: a cancel that marks the caller's single live session between its    *)
(* registration and the return of the crawl keeps Repository.create from   *)
(* being invoked for that request.                                         *)
(***************************************************************************)
C1_NoSaveAfterCancel ==
    \A r \in Requests : req[r].cancelHit => req[r].created = <<>>

(***************************************************************************)
(* C2: a crawl that stopped on the cancelled flag is answered with the     *)
(* cancelled outcome, not with the 500 "Failed to analyze repository" of   *)
(* a fetch error.                                                          *)
(***************************************************************************)
C2_CancelledOutcomeDistinct ==
    \A r \in Requests :
        (req[r].pc = "done" /\ CancelObserved(r)) =>
            /\ req[r].response.status = 499
            /\ req[r].response.message # "Failed to analyze repository"

(***************************************************************************)
(* C3: once a registered request has been answered, its session is no      *)
(* longer in the registry.                                                 *)
(***************************************************************************)
C3_UnregisteredOnEveryExit ==
    \A r \in Requests :
        (req[r].pc = "done" /\ Registered(r)) =>
            ~MapHas(activeAnalyses, req[r].analysisId)

\* the session id was registered by a request of user u
RegisteredBy(id, u) ==
    \E r \in Requests : req[r].analysisId = id /\ req[r].userId = u

\* the progress a poll reads from the session id
SessionProgress(reg, id) == OrElse(MapGet(reg, id), "progress", 0, 0)

(***************************************************************************)
(* C4: a cancel of user u marks only sessions that u registered, and a     *)
(* progress poll of u reads only a session that u registered, also when    *)
(* String(u) is a prefix of another user's id.                             *)
(***************************************************************************)
C4_SessionsIsolated ==
    [][\A u \in Users :
          /\ RequestCancel(u) =>
                \A i \in 1..Len(activeAnalyses) :
                    (/\ ~Truthy(activeAnalyses[i].val, "cancelled")
                     /\ Truthy(activeAnalyses'[i].val, "cancelled"))
                        => RegisteredBy(activeAnalyses[i].id, u)
          /\ QueryProgress(u) =>
                (polled'.source = <<>> \/ RegisteredBy(polled'.source, u))]_vars

(***************************************************************************)
(* C5: as long as a session stays in the registry, the progress a poll     *)
(* reads from it never goes down.                                          *)
(***************************************************************************)
C5_ProgressNonDecreasing ==
    [][\A i \in 1..Len(activeAnalyses) :
          MapHas(activeAnalyses', activeAnalyses[i].id) =>
              SessionProgress(activeAnalyses', activeAnalyses[i].id)
                  >= SessionProgress(activeAnalyses, activeAnalyses[i].id)]_vars

(***************************************************************************)
(* C6, as stated: no node of a returned tree carries a depth above the     *)
(* effective maxDepth, and a truncated directory has no children.          *)
(***************************************************************************)
C6_DepthWithinMax ==
    \A r \in Returned :
        \A i \in 1..Len(NodesOf(TreeOf(r))) :
            LET node == NodesOf(TreeOf(r))[i]
            IN  /\ node.depth <= req[r].depth
                /\ IsTruncated(node) => node.children = <<>>

(***************************************************************************)
(* C6, amended: no node of a returned tree carries a depth above           *)
(* maxDepth + 1; the nodes of depth maxDepth + 1 are the directories the   *)
(* recursion stopped at, and each is truncated and has no children.        *)
(***************************************************************************)
C6_DepthWithinMaxPlusOne ==
    \A r \in Returned :
        \A i \in 1..Len(NodesOf(TreeOf(r))) :
            LET node == NodesOf(TreeOf(r))[i]
            IN  /\ node.depth <= req[r].depth + 1
                /\ node.depth = req[r].depth + 1 <=> IsTruncated(node)
                /\ IsTruncated(node) => IsFolder(node) /\ node.children = <<>>

C6_Witness ==
    \E r \in Returned :
        \E i \in 1..Len(NodesOf(TreeOf(r))) :
            /\ IsTruncated(NodesOf(TreeOf(r))[i])
            /\ NodesOf(TreeOf(r))[i].depth = req[r].depth + 1

(***************************************************************************)
(* C7: every file of a returned tree carries the size the upstream         *)
(* reports for it, and that size is below 1 MiB.                           *)
(***************************************************************************)
C7_FilesBelowCeiling ==
    \A r \in Returned :
        \A i \in 1..Len(NodesOf(TreeOf(r))) :
            LET node == NodesOf(TreeOf(r))[i]
            IN  IsFile(node) =>
                    /\ node.size < 1024 * 1024
                    /\ node.size = UpstreamEntry(Repos[req[r].repo], node.path).size

\* the crawl of the repository with files at and above the ceiling, at
\* the root and one level down, returned and kept the file just below it
C7_Witness ==
    \E r \in Returned :
        /\ req[r].repo = 4
        /\ Len(req[r].fetched) = 2
        /\ \E i \in 1..Len(NodesOf(TreeOf(r))) :
               /\ IsFile(NodesOf(TreeOf(r))[i])
               /\ NodesOf(TreeOf(r))[i].size = (1024 * 1024) - 1

(***************************************************************************)
(* C8: no fetch is issued for a path with a component that the skip test   *)
(* matches, and no node below the root of a returned tree has such a name. *)
(***************************************************************************)
C8_SkippedNeverListed ==
    \A r \in Requests :
        /\ \A i \in 1..Len(req[r].fetched) :
               \A k \in 1..Len(req[r].fetched[i]) : ~shouldSkip(req[r].fetched[i][k])
        /\ r \in Returned =>
               \A i \in 1..Len(Below(TreeOf(r))) : ~shouldSkip(Below(TreeOf(r))[i].name)

\* the crawl of the repository with node_modules at the root and .git one
\* level down returned after fetching the root and src only
C8_Witness ==
    \E r \in Returned :
        /\ req[r].repo = 4
        /\ req[r].fetched = << <<>>, <<N_src>> >>
        /\ req[r].pc = "done"
        /\ req[r].response.status = 200

(***************************************************************************)
(* C9: after a listing fetch was rejected the request is answered with     *)
(* the generic failure carrying the upstream detail, no call is left on    *)
(* the stack, no fetch followed the rejected one, no tree was returned     *)
(* and Repository.create was not invoked.                                  *)
(***************************************************************************)
C9_FetchErrorAborts ==
    \A r \in Requests :
        req[r].failedAt > 0 =>
            /\ req[r].pc = "done"
            /\ req[r].stack = <<>>
            /\ Len(req[r].fetched) = req[r].failedAt
            /\ req[r].created = <<>>
            /\ req[r].response.status = 500
            /\ req[r].response.message = "Failed to analyze repository"
            /\ "error" \in DOMAIN req[r].response
            /\ req[r].response.error[Len(req[r].response.error)] = UpstreamMessage[1]
            /\ "fileTree" \notin DOMAIN req[r].response

\* the fetch of a directory two levels down was rejected
C9_Witness ==
    \E r \in Requests : req[r].failedAt = 3 /\ req[r].pc = "done"

(***************************************************************************)
(* C10: a request whose address is missing or holds no owner/repository    *)
(* pair after the host is answered 400 in the step it arrives in, without  *)
(* a session, a fetch or a Repository.create call, and the registry is as  *)
(* it was.                                                                 *)
(***************************************************************************)
HasOwnerAndRepo(body) ==
    /\ "repoUrl" \in DOMAIN body
    /\ \E i \in 1..Len(body.repoUrl), j \in 1..Len(body.repoUrl) :
           /\ i + Len(HostMarker) < j
           /\ j < Len(body.repoUrl)
           /\ SubSeq(body.repoUrl, i, i + Len(HostMarker) - 1) = HostMarker
           /\ \A k \in (i + Len(HostMarker))..(j - 1) : body.repoUrl[k] # "/"
           /\ body.repoUrl[j] = "/"
           /\ body.repoUrl[j + 1] # "/"

C10_InvalidAddressRejectedFirst ==
    [][\A r \in Requests :
          (/\ req[r].pc = "idle"
           /\ req'[r].pc # "idle"
           /\ ~HasOwnerAndRepo(req'[r].body))
              => /\ req'[r].pc = "done"
                 /\ req'[r].response.status = 400
                 /\ req'[r].analysisId = <<>>
                 /\ req'[r].fetched = <<>>
                 /\ req'[r].created = <<>>
                 /\ activeAnalyses' = activeAnalyses]_vars

\* a request without a repository segment was answered while the session
\* of another request was in the registry
C10_Witness ==
    \E r \in Requests, q \in Requests :
        /\ req[r].pc = "done"
        /\ req[r].response.status = 400
        /\ req[r].body = [repoUrl |-> U_noRepo]
        /\ req[q].pc = "fetching"
        /\ MapHas(activeAnalyses, req[q].analysisId)

(***************************************************************************)
(* C11: Repository.create is invoked at most once per request, in the step *)
(* in which the root call of the crawl returns its tree and after the      *)
(* request's session was removed from the registry; the success response   *)
(* is sent by the step that follows the save and carries the saved tree.   *)
(***************************************************************************)
C11_SaveOnceAfterUnregister ==
    [][\A r \in Requests :
          /\ req'[r].created # req[r].created =>
                /\ req[r].created = <<>>
                /\ Len(req'[r].created) = 1
                /\ req[r].pc = "fetching"
                /\ req'[r].pc = "saving"
                /\ req'[r].stack = <<>>
                /\ MapHas(activeAnalyses, req[r].analysisId)
                /\ ~MapHas(activeAnalyses', req[r].analysisId)
                /\ req'[r].created[1].repoData.depth = 0
          /\ (req'[r].response.status = 200 /\ req[r].response.status # 200) =>
                /\ req[r].pc = "saving"
                /\ req'[r].response.fileTree = req[r].created[1].repoData]_vars

\* a request was answered 200 after its one save
C11_Witness ==
    \E r \in Requests :
        /\ req[r].pc = "done"
        /\ req[r].response.status = 200
        /\ Len(req[r].created) = 1
        /\ Len(req[r].fetched) > 1

(***************************************************************************)
(* C12: the effective maxDepth of a request with a valid address lies in   *)
(* 1..20 and is the requested integer clamped into that range, and the     *)
(* request is not rejected.                                                *)
(***************************************************************************)
C12_DepthClamped ==
    \A r \in Requests :
        (req[r].pc # "idle" /\ HasOwnerAndRepo(req[r].body)) =>
            /\ req[r].depth \in 1..20
            /\ req[r].response.status # 400
            /\ "maxDepth" \in DOMAIN req[r].body =>
                   req[r].depth =
                       (IF req[r].body.maxDepth < 1 THEN 1
                        ELSE IF req[r].body.maxDepth > 20 THEN 20
                        ELSE req[r].body.maxDepth)

\* the registry holds a session that a request of user u registered
HasSessionOf(reg, u) == \E i \in 1..Len(reg) : RegisteredBy(reg[i].id, u)

(***************************************************************************)
(* C13: after a cancel of user u, a second cancel of u right away changes  *)
(* nothing: the registry it would write is the registry it finds, no       *)
(* request is newly affected, and its response is the one already given.   *)
(***************************************************************************)
C13_CancelIdempotent ==
    [][\A u \in Users :
          RequestCancel(u) =>
              /\ MarkCancelled(activeAnalyses', u) = activeAnalyses'
              /\ \A i \in Matches(activeAnalyses', u) :
                     Truthy(activeAnalyses'[i].val, "cancelled")
              /\ polled' = [userId |-> u, response |-> CancelResponse,
                            source |-> <<>>]]_vars

\* a cancel was the last control call and found a session to mark
C13_Witness ==
    /\ polled.response = CancelResponse
    /\ \E i \in 1..Len(activeAnalyses) :
           /\ Truthy(activeAnalyses[i].val, "cancelled")
           /\ RegisteredBy(activeAnalyses[i].id, polled.userId)

(***************************************************************************)
(* C14: every cancel is answered with the acknowledgement, and a cancel of *)
(* a user none of whose sessions is in the registry leaves the registry as *)
(* it was.                                                                 *)
(***************************************************************************)
C14_CancelWithoutSessionIsNoOp ==
    [][\A u \in Users :
          RequestCancel(u) =>
              /\ polled'.response = CancelResponse
              /\ ~HasSessionOf(activeAnalyses, u) =>
                     activeAnalyses' = activeAnalyses]_vars

(***************************************************************************)
(* C15: a cancel of user u leaves every session that u registered and that *)
(* is in the registry with cancelled = true, however many there are.       *)
(***************************************************************************)
C15_CancelMarksAllOfCaller ==
    [][\A u \in Users :
          RequestCancel(u) =>
              /\ Len(activeAnalyses') = Len(activeAnalyses)
              /\ \A i \in 1..Len(activeAnalyses) :
                     RegisteredBy(activeAnalyses[i].id, u) =>
                         /\ activeAnalyses'[i].id = activeAnalyses[i].id
                         /\ Truthy(activeAnalyses'[i].val, "cancelled")]_vars

\* two sessions of one user, both being crawled, both marked cancelled
C15_Witness ==
    \E r, q \in Requests :
        /\ r # q
        /\ req[r].userId = req[q].userId
        /\ req[r].pc = "fetching" /\ req[q].pc = "fetching"
        /\ req[r].analysisId # req[q].analysisId
        /\ MapHas(activeAnalyses, req[r].analysisId)
        /\ MapHas(activeAnalyses, req[q].analysisId)
        /\ Truthy(MapGet(activeAnalyses, req[r].analysisId), "cancelled")
        /\ Truthy(MapGet(activeAnalyses, req[q].analysisId), "cancelled")

\* the position of the session of user u that entered the registry last
LatestSessionOf(reg, u) ==
    CHOOSE k \in 1..Len(reg) :
        /\ RegisteredBy(reg[k].id, u)
        /\ \A j \in 1..Len(reg) : RegisteredBy(reg[j].id, u) => j <= k

(***************************************************************************)
(* C16: a progress poll of user u answers active = false exactly when no   *)
(* session that u registered is in the registry, and otherwise answers     *)
(* with the fields of the session of u that was registered last.           *)
(***************************************************************************)
C16_ProgressOfLatestSession ==
    [][\A u \in Users :
          QueryProgress(u) =>
              /\ polled'.response.active = HasSessionOf(activeAnalyses, u)
              /\ HasSessionOf(activeAnalyses, u) =>
                     LET a == activeAnalyses[LatestSessionOf(activeAnalyses, u)]
                     IN  /\ polled'.source = a.id
                         /\ polled'.response =
                                [active |-> TRUE,
                                 progress |-> OrElse(a.val, "progress", 0, 0),
                                 currentDepth |-> OrElse(a.val, "currentDepth", 0, 0),
                                 currentPath |-> OrElse(a.val, "currentPath", <<>>, <<>>),
                                 cancelled |-> OrElse(a.val, "cancelled", FALSE, FALSE)]]_vars

(***************************************************************************)
(* C17: the crawl of the repository whose root lists one file of size 10   *)
(* and the directory src, run with maxDepth 1, returns a root folder with  *)
(* two children in listing order: the file at depth 1 and src at depth 1,  *)
(* truncated, with no children.                                            *)
(***************************************************************************)
C17_ScenarioTree ==
    \A r \in Returned :
        (req[r].repo = 2 /\ req[r].depth = 1) =>
            LET t == TreeOf(r)
            IN  /\ IsFolder(t)
                /\ t.depth = 0
                /\ Len(t.children) = 2
                /\ IsFile(t.children[1])
                /\ t.children[1].name = N_readme
                /\ t.children[1].size = 10
                /\ t.children[1].depth = 1
                /\ IsFolder(t.children[2])
                /\ t.children[2].name = N_src
                /\ t.children[2].depth = 1
                /\ IsTruncated(t.children[2])
                /\ t.children[2].children = <<>>

\* the path was the argument of a listing fetch of the request
WasFetched(r, path) == \E i \in 1..Len(req[r].fetched) : req[r].fetched[i] = path

(***************************************************************************)
(* C18: in a returned tree the root is not truncated, and a folder node    *)
(* below it is truncated, with a message, exactly when it lies deeper than *)
(* the effective maxDepth; a truncated node has no children and its path   *)
(* was never fetched, and a folder node that is not truncated was fetched  *)
(* and carries no message.  File nodes are never truncated.                *)
(***************************************************************************)
C18_TruncatedIffBeyondCeiling ==
    \A r \in Returned :
        /\ ~IsTruncated(TreeOf(r))
        /\ "message" \notin DOMAIN TreeOf(r)
        /\ \A i \in 1..Len(Below(TreeOf(r))) :
               LET n == Below(TreeOf(r))[i]
               IN  IF IsFile(n)
                   THEN "truncated" \notin DOMAIN n /\ "message" \notin DOMAIN n
                   ELSE /\ IsTruncated(n) <=> Len(n.path) > req[r].depth
                        /\ IsTruncated(n) =>
                               /\ "message" \in DOMAIN n
                               /\ n.children = <<>>
                               /\ ~WasFetched(r, n.path)
                        /\ ~IsTruncated(n) =>
                               /\ "message" \notin DOMAIN n
                               /\ WasFetched(r, n.path)

\* a returned tree holds a listed folder with children next to a truncated
\* folder whose upstream directory is not empty
C18_Witness ==
    \E r \in Returned :
        \E i, j \in 1..Len(Below(TreeOf(r))) :
            /\ IsFolder(Below(TreeOf(r))[i])
            /\ ~IsTruncated(Below(TreeOf(r))[i])
            /\ Below(TreeOf(r))[i].children # <<>>
            /\ IsTruncated(Below(TreeOf(r))[j])
            /\ Entries(Repos[req[r].repo], Below(TreeOf(r))[j].path) # <<>>

(***************************************************************************)
(* C19: every node of a returned tree is a file without children or a      *)
(* folder with children and without size and download_url, the root has    *)
(* depth 0, and every child of a folder, file or folder, has the depth of  *)
(* the folder plus 1.                                                      *)
(***************************************************************************)
C19_NodeShapeAndDepth ==
    \A r \in Returned :
        /\ TreeOf(r).depth = 0
        /\ \A i \in 1..Len(NodesOf(TreeOf(r))) :
               LET n == NodesOf(TreeOf(r))[i]
               IN  /\ IsFile(n) \/ IsFolder(n)
                   /\ IsFile(n) => "children" \notin DOMAIN n
                   /\ IsFolder(n) =>
                          /\ "children" \in DOMAIN n
                          /\ "size" \notin DOMAIN n
                          /\ "download_url" \notin DOMAIN n
                          /\ \A k \in 1..Len(n.children) :
                                 n.children[k].depth = n.depth + 1

\* an entry that stays in the tree: no skip pattern matches its name and,
\* for a file, its size is below the ceiling
Kept(e) == ~shouldSkip(e.name) /\ (e.type = "file" => e.size < SizeCeiling)

\* the name and kind of each entry, and of each node, in order
EntryKeys(entries) ==
    [i \in 1..Len(entries) |->
        <<entries[i].name, IF entries[i].type = "dir" THEN "folder" ELSE "file">>]
NodeKeys(nodes) == [i \in 1..Len(nodes) |-> <<nodes[i].name, nodes[i].type>>]

(***************************************************************************)
(* C20: in a returned tree the children of the root and of every folder    *)
(* node that was listed are the entries of the upstream listing of that    *)
(* directory without the entries a skip pattern matches and without the    *)
(* files at or above the size ceiling, in the order of the listing.        *)
(***************************************************************************)
C20_ChildrenAreFilteredListing ==
    \A r \in Returned :
        /\ NodeKeys(TreeOf(r).children) =
               EntryKeys(SelectSeq(Entries(Repos[req[r].repo], <<>>), Kept))
        /\ \A i \in 1..Len(Below(TreeOf(r))) :
               LET n == Below(TreeOf(r))[i]
               IN  (IsFolder(n) /\ ~IsTruncated(n)) =>
                       NodeKeys(n.children) =
                           EntryKeys(SelectSeq(Entries(Repos[req[r].repo], n.path), Kept))

\* the first k names of a path
Prefix(path, k) == SubSeq(path, 1, k)

(***************************************************************************)
(* C21: a crawl has one listing fetch outstanding at a time.  While a      *)
(* request waits for a fetch, the calls on its stack are the call that     *)
(* issued the fetch and its ancestors only: the k-th call is the one for   *)
(* the first k - 1 names of the path being fetched, every ancestor has its *)
(* listing and waits for the call it made for the next entry, and the      *)
(* last fetch issued is the one outstanding.  A step issues at most one    *)
(* fetch, and only from a request whose earlier fetch has returned in      *)
(* that step.                                                              *)
(***************************************************************************)
C21_OneFetchOutstanding ==
    [][\A r \in Requests :
          /\ req'[r].pc = "fetching" =>
                LET st == req'[r].stack
                    n  == Len(st)
                IN  /\ n >= 1
                    /\ st[n].items = <<>>
                    /\ req'[r].fetched[Len(req'[r].fetched)] = st[n].path
                    /\ \A k \in 1..n :
                           /\ st[k].depth = k - 1
                           /\ st[k].path = Prefix(st[n].path, k - 1)
                           /\ k < n =>
                                  /\ st[k].items # <<>>
                                  /\ Head(st[k].items).path = st[k + 1].path
          /\ req'[r].pc # "fetching" => req'[r].stack = <<>>
          /\ Len(req'[r].fetched) <= Len(req[r].fetched) + 1
          /\ Len(req'[r].fetched) > Len(req[r].fetched) =>
                /\ req'[r].pc = "fetching"
                /\ SubSeq(req'[r].fetched, 1, Len(req[r].fetched)) = req[r].fetched
                /\ \A i \in 1..Len(req[r].fetched) :
                       req[r].fetched[i] # req'[r].fetched[Len(req'[r].fetched)]]_vars

\* a fetch for a directory is outstanding after the whole call for an
\* earlier sibling, which fetched two listings, has returned
C21_Witness ==
    \E r \in Requests :
        /\ req[r].pc = "fetching"
        /\ Len(req[r].stack) = 2
        /\ Len(req[r].fetched) = 4

(***************************************************************************)
(* C22: when a listing fetch returns while the session's cancelled flag    *)
(* is set, the crawl throws the cancellation before it uses the listing    *)
(* or returns a tree, whatever the listing holds, an empty one included:   *)
(* the request ends with the failure that names the cancellation and       *)
(* Repository.create is not called.                                        *)
(***************************************************************************)
C22_CancelCheckedAfterFetch ==
    [][\A r \in Requests :
          (FetchReturns(r) /\ IsCancelled(activeAnalyses, req[r].analysisId)) =>
              /\ req'[r].pc = "done"
              /\ req'[r].created = <<>>
              /\ "error" \in DOMAIN req'[r].response
              /\ req'[r].response.error =
                     Wrap(CancelledMessage, Len(req[r].stack))]_vars

(***************************************************************************)
(* C23: a step of a crawl issues a fetch only from a state in which the    *)
(* session's cancelled flag is not set, and a crawl whose session was      *)
(* marked cancelled while it was running issues no fetch afterwards.       *)
(***************************************************************************)
C23_NoFetchAfterCancel ==
    [][\A r \in Requests :
          (req[r].pc = "fetching" /\ Len(req'[r].fetched) > Len(req[r].fetched)) =>
              /\ ~IsCancelled(activeAnalyses, req[r].analysisId)
              /\ ~req[r].cancelHit]_vars

(***************************************************************************)
(* C24: when a listing that is not empty returns to a call whose session   *)
(* is marked cancelled, the call throws and every call on the stack        *)
(* rethrows: the stack is emptied, no fetch is issued, the detail of the   *)
(* failure is wrapped once per call, no tree reaches the handler and       *)
(* Repository.create is not called.                                        *)
(***************************************************************************)
C24_CancelAbortsWholeStack ==
    [][\A r \in Requests :
          (/\ FetchReturns(r)
           /\ IsCancelled(activeAnalyses, req[r].analysisId)
           /\ ListDirectory(req[r].repo, req[r].stack[Len(req[r].stack)].path) # <<>>) =>
              /\ req'[r].pc = "done"
              /\ req'[r].stack = <<>>
              /\ req'[r].fetched = req[r].fetched
              /\ req'[r].created = <<>>
              /\ req'[r].response.status = 500
              /\ "fileTree" \notin DOMAIN req'[r].response
              /\ req'[r].response.error =
                     Wrap(CancelledMessage, Len(req[r].stack))]_vars

\* the cancellation was thrown two calls deep and reached the handler
C24_Witness ==
    \E r \in Requests :
        /\ req[r].pc = "done"
        /\ Len(req[r].fetched) >= 2
        /\ req[r].created = <<>>
        /\ req[r].response.status = 500
        /\ req[r].response.error = Wrap(CancelledMessage, 2)

(***************************************************************************)
(* C25: the session of a crawl that is running, once its cancelled flag is *)
(* set, keeps the flag set for as long as its entry is in the registry.    *)
(***************************************************************************)
C25_CancelledStaysSet ==
    [][\A i \in 1..Len(activeAnalyses) :
          (/\ Truthy(activeAnalyses[i].val, "cancelled")
           /\ \E r \in Requests : /\ req[r].pc = "fetching"
                                  /\ req[r].analysisId = activeAnalyses[i].id
           /\ MapHas(activeAnalyses', activeAnalyses[i].id)) =>
              IsCancelled(activeAnalyses', activeAnalyses[i].id)]_vars

\* the fields of a registry value other than the named ones
Without(val, fields) == [f \in (DOMAIN val) \ fields |-> val[f]]

\* the ids of the registry, in order
Keys(reg) == [i \in 1..Len(reg) |-> reg[i].id]

ProgressFields == {"progress", "currentDepth", "currentPath"}

(***************************************************************************)
(* C26: a cancel leaves the keys of the registry and every field of every  *)
(* entry other than cancelled as they were; a step of a crawl that leaves  *)
(* its session registered changes nothing of it but progress, currentDepth *)
(* and currentPath, and no step of a crawl changes an entry under another  *)
(* id; a progress poll leaves the registry as it was.                      *)
(***************************************************************************)
C26_WritersDisjoint ==
    [][/\ \A u \in Users :
             /\ RequestCancel(u) =>
                   /\ Keys(activeAnalyses') = Keys(activeAnalyses)
                   /\ \A i \in 1..Len(activeAnalyses) :
                          Without(activeAnalyses'[i].val, {"cancelled"}) =
                              Without(activeAnalyses[i].val, {"cancelled"})
             /\ QueryProgress(u) => activeAnalyses' = activeAnalyses
       /\ \A r \in Requests :
             (FetchReturns(r) \/ FetchFails(r)) =>
                 /\ \A i \in 1..Len(activeAnalyses) :
                        activeAnalyses[i].id # req[r].analysisId =>
                            /\ MapHas(activeAnalyses', activeAnalyses[i].id)
                            /\ MapGet(activeAnalyses', activeAnalyses[i].id) =
                                   activeAnalyses[i].val
                 /\ \A i \in 1..Len(activeAnalyses') :
                        activeAnalyses'[i].id # req[r].analysisId =>
                            MapHas(activeAnalyses, activeAnalyses'[i].id)
                 /\ (/\ MapHas(activeAnalyses, req[r].analysisId)
                     /\ MapHas(activeAnalyses', req[r].analysisId)) =>
                        Without(MapGet(activeAnalyses', req[r].analysisId), ProgressFields) =
                            Without(MapGet(activeAnalyses, req[r].analysisId), ProgressFields)]_vars

\* two sessions are registered, one marked cancelled, the other with the
\* progress of a call one level down and not marked
C26_Witness ==
    \E i, j \in 1..Len(activeAnalyses) :
        /\ i # j
        /\ Truthy(activeAnalyses[i].val, "cancelled")
        /\ ~Truthy(activeAnalyses[j].val, "cancelled")
        /\ OrElse(activeAnalyses[j].val, "currentDepth", 0, 0) = 1
        /\ \E r \in Requests : /\ req[r].pc = "fetching"
                               /\ req[r].analysisId = activeAnalyses[j].id

\* what Math.round(Math.min(depth / maxDepth * 100, 100)) must be: p is the
\* integer nearest to 100 * depth / maxDepth, halves upwards, capped at 100
IsRoundedPercent(p, depth, maxDepth) ==
    /\ p \in 0..100
    /\ p < 100 => /\ 2 * maxDepth * p <= 200 * depth + maxDepth
                  /\ 200 * depth + maxDepth < 2 * maxDepth * (p + 1)
    /\ p = 100 => 200 * depth + maxDepth >= 200 * maxDepth

(***************************************************************************)
(* C27: a step of a crawl that ends in the fetch of a directory at depth 1 *)
(* or more leaves the session with that depth, that path and the           *)
(* percentage min(100, round(100 * depth / maxDepth)); after every step    *)
(* the progress of every entry of the registry is an integer from 0 to     *)
(* 100; and the percentage computed for any depth up to maxDepth + 1 is    *)
(* that rounded value, 100 for depth maxDepth + 1.                         *)
(***************************************************************************)
C27_ProgressIsRoundedPercent ==
    [][/\ \A r \in Requests :
             (/\ FetchReturns(r)
              /\ req'[r].pc = "fetching"
              /\ req'[r].stack[Len(req'[r].stack)].depth >= 1) =>
                 LET top == req'[r].stack[Len(req'[r].stack)]
                     a   == MapGet(activeAnalyses', req[r].analysisId)
                 IN  /\ MapHas(activeAnalyses', req[r].analysisId)
                     /\ a.currentDepth = top.depth
                     /\ a.currentPath = top.path
                     /\ IsRoundedPercent(a.progress, top.depth, req[r].depth)
       /\ \A i \in 1..Len(activeAnalyses') :
             SessionProgress(activeAnalyses', activeAnalyses'[i].id) \in 0..100
       /\ \A m \in 1..20 :
             /\ \A d \in 0..(m + 1) : IsRoundedPercent(Progress(d, m), d, m)
             /\ Progress(m + 1, m) = 100]_vars

\* a crawl with the default maxDepth 15 waits two levels down at 13 percent
C27_Witness ==
    \E r \in Requests :
        /\ req[r].pc = "fetching"
        /\ req[r].depth = 15
        /\ Len(req[r].stack) = 3
        /\ MapGet(activeAnalyses, req[r].analysisId).progress = 13

\* a node of the returned tree stands for the entry at the path
Appears(r, path) ==
    \E i \in 1..Len(Below(TreeOf(r))) : Below(TreeOf(r))[i].path = path

(***************************************************************************)
(* C28: a file of a listing the crawl fetched is in the returned tree      *)
(* exactly when no skip pattern matches its name and its size is below     *)
(* the ceiling, a size of 0 included.                                      *)
(***************************************************************************)
C28_FileListedIffSmallAndUnskipped ==
    \A r \in Returned :
        \A i \in 1..Len(req[r].fetched) :
            LET dir == req[r].fetched[i]
                es  == Entries(Repos[req[r].repo], dir)
            IN  \A k \in 1..Len(es) :
                    es[k].type = "file" =>
                        (Appears(r, Append(dir, es[k].name))
                            <=> (~shouldSkip(es[k].name) /\ es[k].size < SizeCeiling))

\* name ends with the characters of suffix
EndsWith(name, suffix) ==
    /\ Len(name) >= Len(suffix)
    /\ From(name, Len(name) - Len(suffix) + 1) = suffix

\* the filter as documented: a fixed name matches a name equal to it, a
\* pattern "*suffix" matches a name that ends with the suffix
NameExcluded(name) ==
    \E i \in 1..Len(skipPatterns) :
        IF Head(skipPatterns[i]) = "*"
        THEN EndsWith(name, Tail(skipPatterns[i]))
        ELSE name = skipPatterns[i]

(***************************************************************************)
(* C29: an entry of a listing the crawl fetched, a directory or a file     *)
(* that passes the size test, is left out of the returned tree exactly     *)
(* when its name equals one of the fixed names or ends with one of the     *)
(* suffixes; a name such as catalog, which only holds the letters of a     *)
(* suffix, stays in.                                                       *)
(***************************************************************************)
C29_SkipIsExactOrSuffix ==
    \A r \in Returned :
        \A i \in 1..Len(req[r].fetched) :
            LET dir == req[r].fetched[i]
                es  == Entries(Repos[req[r].repo], dir)
            IN  \A k \in 1..Len(es) :
                    (es[k].type = "dir" \/ IncludeFile(es[k])) =>
                        (~Appears(r, Append(dir, es[k].name))
                            <=> NameExcluded(es[k].name))

(***************************************************************************)
(* C30: two analyses that run at the same time never have the same         *)
(* session id: a registration never writes over the entry of a running     *)
(* analysis, so never resets its cancelled flag or its progress, and the   *)
(* removal of an analysis's entry never removes that of another running    *)
(* analysis.                                                               *)
(***************************************************************************)
C30_SessionIdsUnique ==
    [][\A r, q \in Requests :
          (r # q /\ req[q].pc = "fetching" /\ req'[q].pc = "fetching") =>
              /\ (req[r].pc = "idle" /\ req'[r].pc = "fetching") =>
                     /\ req'[r].analysisId # req[q].analysisId
                     /\ MapGet(activeAnalyses', req[q].analysisId) =
                            MapGet(activeAnalyses, req[q].analysisId)
              /\ (/\ req[r].pc = "fetching" /\ req'[r].pc # "fetching"
                  /\ MapHas(activeAnalyses, req[q].analysisId)) =>
                     MapHas(activeAnalyses', req[q].analysisId)]_vars

(***************************************************************************)
(* C31: a session is registered with cancelled = false and progress 0,     *)
(* whatever was cancelled or failed before, and the flag of a running      *)
(* session goes from false to true only in a cancel of the user who        *)
(* started the analysis.                                                   *)
(***************************************************************************)
C31_FlagSetOnlyByLaterCancelOfCaller ==
    [][\A r \in Requests :
          /\ (req[r].pc = "idle" /\ req'[r].pc = "fetching") =>
                MapGet(activeAnalyses', req'[r].analysisId) =
                    [cancelled |-> FALSE, progress |-> 0]
          /\ (/\ req[r].pc = "fetching"
              /\ MapHas(activeAnalyses, req[r].analysisId)
              /\ ~IsCancelled(activeAnalyses, req[r].analysisId)
              /\ IsCancelled(activeAnalyses', req[r].analysisId)) =>
                RequestCancel(req[r].userId)]_vars

\* the request has been answered
Answered(r) == req[r].response.status # 0

(***************************************************************************)
(* C32: with every pending fetch and save settling in the end, a request   *)
(* that has arrived is answered, whatever cancels and polls come in        *)
(* between; an answer once sent is never followed by another; and no call  *)
(* waits for a listing, and no listing is fetched, at a depth above the    *)
(* effective maxDepth, so the only deeper calls are those at maxDepth + 1, *)
(* which return the truncated folder at once.                              *)
(***************************************************************************)
C32_AnsweredOnceWithinDepth ==
    /\ \A r \in Requests : (req[r].pc # "idle") ~> Answered(r)
    /\ [][\A r \in Requests :
             /\ Answered(r) => req'[r].response = req[r].response
             /\ req'[r].pc = "done" => Answered(r)']_vars
    /\ [](\A r \in Requests :
             /\ \A k \in 1..Len(req[r].stack) : req[r].stack[k].depth <= req[r].depth
             /\ Len(req[r].stack) <= req[r].depth + 1
             /\ \A i \in 1..Len(req[r].fetched) : Len(req[r].fetched[i]) <= req[r].depth
             /\ r \in Returned =>
                    \A i \in 1..Len(Below(TreeOf(r))) :
                        Len(Below(TreeOf(r))[i].path) <= req[r].depth + 1)

\* a crawl with maxDepth 1 was cancelled and polled on the way, reached a
\* directory at depth 2, which it did not fetch, and was answered
C32_Witness ==
    \E r \in Requests :
        /\ Answered(r)
        /\ req[r].depth = 1
        /\ req[r].cancelHit
        /\ polled.userId # 0
        /\ \E i \in 1..Len(req[r].fetched) : Len(req[r].fetched[i]) = 1
        /\ \E e \in { Entries(Repos[req[r].repo], <<N_src>>)[k] :
                        k \in 1..Len(Entries(Repos[req[r].repo], <<N_src>>)) } :
               e.type = "dir" /\ ~shouldSkip(e.name)

====
